---- MODULE Spec2Model ----
(***************************************************************************)
(* NewsNinja: one request of the /generate-news-audio endpoint.            *)
(*                                                                         *)
(* A request (topics, source_type, language) drives up to three collectors *)
(* (news, reddit, twitter) one after another, then the Composer            *)
(* (generate_broadcast_news), the Translator (translate_for_language) and  *)
(* the Narrator (text_to_audio_murf), and ends in a JSON response or an    *)
(* HTTP 500.                                                               *)
(*                                                                         *)
(* Text is a sequence of tokens; a topic is a sequence of characters, so   *)
(* that f-strings are concatenations and str.split / str.startswith are    *)
(* computed on the characters.  A Python dict is a function whose domain   *)
(* is its key set.  The external capabilities (fetches, the tool session,  *)
(* the agent, the language model, the speech service) answer               *)
(* nondeterministically with one of their outcomes at every call.          *)
(***************************************************************************)
EXTENDS Integers, Sequences, FiniteSets, TLC

VARIABLES
    topics,         \* req.topics
    source_type,    \* req.source_type
    language,       \* req.language
    pc,             \* position of generate_news_audio
    results,        \* backend.py: results = {}
    col_idx,        \* running collector: index of the topic of the for loop
    col_attempt,    \* running collector: attempt number of the retry wrapper
    col_res,        \* running collector: its local results dict
    col_hist,       \* history: events of the running collector for its latest topic
    col_calls,      \* history: agent calls made so far by the running collector
    session,        \* running reddit/twitter collector: the MCP tool session
    log,            \* history: << event, source or stage, topic index >> in order
    prompt,         \* topic_blocks joined into the user prompt of the Composer
    summary_en,     \* backend.py: summary_en
    final_summary,  \* backend.py: final_summary
    calls,          \* history: number of model / speech calls per stage
    failed,         \* history: << source or stage, topic index >> of every failed call
    audio_path,     \* backend.py: audio_path
    files,          \* the audio directory: path -> content
    response,       \* what the endpoint answered
    rid,            \* which request the variables above belong to
    other,          \* the same variables of a second request, while it is suspended
    limiter_users,  \* history: per limiter object, the requests that acquired from it
    today,          \* the current date, as a day number
    two_weeks_ago,  \* reddit_scraper.py: two_weeks_ago, set when the module is imported
    input_key       \* frontend.py: st.session_state.input_key

vars == << topics, source_type, language, pc, results, col_idx, col_attempt,
           col_res, col_hist, col_calls, session, log, prompt, summary_en,
           final_summary, calls, failed, audio_path, files, response, rid, other,
           limiter_users, today, two_weeks_ago, input_key >>

\* the state of the process around a request
process == << today, two_weeks_ago >>
\* which request is running and which is suspended
switching == << rid, other >>

-----------------------------------------------------------------------------
(* Bounds and input universes *)

MaxTopics == 2

TopicPlain == << "a" >>
TopicQuoted == << "b", "'", "c" >>
Topics == { TopicPlain, TopicQuoted }
TopicLists == UNION { [1..n -> Topics] : n \in 0..MaxTopics }

SourceTypes == { "news", "reddit", "twitter", "both", "all", "other" }

EnUS == << "e", "n", "-", "U", "S" >>
EnIN == << "e", "n", "-", "I", "N" >>
HiIN == << "h", "i", "-", "I", "N" >>
Languages == { EnUS, EnIN, HiIN }

Sources == << "news", "reddit", "twitter" >>
SourceSet == { "news", "reddit", "twitter" }

\* no second request
NoOther == << >>
\* NewsScraper._rate_limiter, mcp_limiter, twitter_limiter before any acquire()
NoUsers == [ src \in SourceSet |-> {} ]

\* timedelta(days=14)
Lookback == 14
\* two_weeks_ago = datetime.today() - timedelta(days=14)
TwoWeeksAgo(day) == day - Lookback

-----------------------------------------------------------------------------
(* Python values *)

None == << "<None>" >>
EmptyDict == << >>
Put(d, k, v) == (k :> v) @@ d
Get(d, k) == IF k \in DOMAIN d THEN d[k] ELSE None
Truthy(x) == x # None /\ x # << >>
Range(s) == { s[i] : i \in DOMAIN s }

RECURSIVE TakeUntil(_, _)
TakeUntil(s, c) ==
    IF s = << >> \/ Head(s) = c THEN << >>
    ELSE << Head(s) >> \o TakeUntil(Tail(s), c)

RECURSIVE DropThrough(_, _)
DropThrough(s, c) ==
    IF s = << >> THEN << >>
    ELSE IF Head(s) = c THEN Tail(s) ELSE DropThrough(Tail(s), c)

\* s.split(c)[1] for a string s that contains c
SplitSecond(s, c) == TakeUntil(DropThrough(s, c), c)

\* s.startswith(p)
StartsWith(s, p) == Len(s) >= Len(p) /\ SubSeq(s, 1, Len(p)) = p

\* s.strip()
Whitespace == { " ", "\n" }

RECURSIVE LStrip(_)
LStrip(s) == IF s # << >> /\ Head(s) \in Whitespace THEN LStrip(Tail(s)) ELSE s

RECURSIVE RStrip(_)
RStrip(s) ==
    IF s # << >> /\ s[Len(s)] \in Whitespace THEN RStrip(SubSeq(s, 1, Len(s) - 1)) ELSE s

Strip(s) == RStrip(LStrip(s))

\* kinds of events of col_hist
IsCall(e) == e[1] = "call"
IsWait(e) == e[1] = "wait"
IsAcquire(e) == e[1] = "acquire"

Min(a, b) == IF a <= b THEN a ELSE b
Max(a, b) == IF a >= b THEN a ELSE b

-----------------------------------------------------------------------------
(* Texts the collectors produce *)

NewsPlaceholder(topic) ==
    << "We couldn't retrieve the latest news about " >> \o topic \o << " at this time." >>

SourceLabel(src) == IF src = "reddit" THEN "Reddit" ELSE "Twitter"

ForumPlaceholder(src, topic) ==
    << SourceLabel(src), " discussions about " >> \o topic
        \o << " are currently unavailable." >>

BackendFallback(src) == << SourceLabel(src), " unavailable" >>

\* the user message process_topic / process_twitter_topic builds
UserMessage(src, topic) ==
    << "Analyze ", SourceLabel(src), " posts about ", "'" >> \o topic
        \o << "'", ". Provide a comprehensive summary" >>

\* the text the model returns for one topic of one source
ModelText(src, about) == << src, " summary of " >> \o about

StandIn(topic) == << "Latest news about " >> \o topic
Headlines(topic) == << "headlines on " >> \o topic

-----------------------------------------------------------------------------
(* Calls return [raised, kind, value]: a value, or an exception of a kind *)

Ok(v) == [raised |-> FALSE, kind |-> "", value |-> v]
Raise(k) == [raised |-> TRUE, kind |-> k, value |-> None]

Http500(detail) ==
    [status |-> 500, summary_text |-> None, audio_content |-> None, detail |-> detail]
Http200(text, audio) ==
    [status |-> 200, summary_text |-> text, audio_content |-> audio, detail |-> None]
NoResponse ==
    [status |-> 0, summary_text |-> None, audio_content |-> None, detail |-> None]

-----------------------------------------------------------------------------
(* News collector: NewsScraper.scrape_news *)

NewsMaxAttempts == 3

FetchOutcomes == { "ok", "fail" }
ExtractOutcomes == { "some", "none" }
\* summarize_with_gemini_news_script answers with a script or raises; NewsBody
\* also covers an empty answer ("empty")
ModelOutcomes == { "text", "fail" }

\* mutant: the pauses of reddit and twitter exchanged
PauseSwapped(src) ==
    CASE src = "news" -> 1
      [] src = "reddit" -> 3
      [] src = "twitter" -> 5

\* await asyncio.sleep(n) after each topic
Pause(src) ==
    CASE src = "news" -> 1
      [] src = "reddit" -> 5
      [] src = "twitter" -> 3

\* mutant: the except clause around the primary fetch gives up at once
NewsFetchNoFallback(primary, secondary) ==
    IF primary = "ok"
    THEN [raised |-> FALSE, events |-> << << "primary", "ok", 0 >> >>]
    ELSE [raised |-> TRUE, events |-> << << "primary", "fail", 0 >> >>]

\* search_html: scrape_with_brightdata, and requests.get in its except clause;
\* events are the fetches made, raised is whether the last of them raised
NewsFetch(primary, secondary) ==
    IF primary = "ok"
    THEN [raised |-> FALSE, events |-> << << "primary", "ok", 0 >> >>]
    ELSE [raised |-> secondary = "fail",
          events |-> << << "primary", "fail", 0 >>, << "secondary", secondary, 0 >> >>]

\* extract_headlines(clean_text)
Extracted(topic, extract) == IF extract = "some" THEN Headlines(topic) ELSE << >>

\* mutant: no stand-in, the empty extraction goes to the summarizer
HeadlinesNoStandIn(topic, extracted) == extracted

\* if not headlines or headlines.strip() == "": headlines = f"Latest news about {topic}"
HeadlinesOrStandIn(topic, extracted) ==
    IF extracted = << >> \/ Strip(extracted) = << >> THEN StandIn(topic) ELSE extracted

\* the body of the per-topic try block: fetch (primary, else secondary), clean,
\* extract headlines (stand-in when empty), summarize
NewsBody(topic, primary, secondary, extract, summ) ==
    IF NewsFetch(primary, secondary).raised THEN Raise("FetchError")
    ELSE LET headlines == HeadlinesOrStandIn(topic, Extracted(topic, extract))
         IN  CASE summ = "fail"  -> Raise("HTTPException")
               [] summ = "empty" -> Ok(<< >>)
               [] OTHER          -> Ok(ModelText("news", headlines))

\* what one iteration of the topic loop does, in order: the limiter permit, the
\* fetches, the extraction, the summarizer call, the store and the pause
NewsEvents(topic, primary, secondary, extract, summ, idx) ==
    LET fetch == NewsFetch(primary, secondary)
        headlines == HeadlinesOrStandIn(topic, Extracted(topic, extract))
        body == NewsBody(topic, primary, secondary, extract, summ)
    IN  << << "acquire", "news", 0 >> >> \o fetch.events
            \o (IF fetch.raised THEN << >>
                ELSE << << "extract", extract, 0 >>,
                        << "summarize",
                           IF headlines = StandIn(topic) THEN "standin" ELSE "headlines",
                           0 >>,
                        << "summarized", summ, 0 >> >>)
            \o << << "store", IF body.raised THEN "placeholder" ELSE "summary", idx >>,
                   << "sleep", "", Pause("news") >> >>

\* mutant: the per-topic except clause is missing
NewsNoCatch(topic, r) == r

\* except Exception as e: results[topic] = placeholder
NewsCatch(topic, r) == IF r.raised THEN Ok(NewsPlaceholder(topic)) ELSE r

\* the tenacity wrapper of scrape_news: no retry predicate (any exception is
\* retried), stop_after_attempt(3), no reraise (RetryError after the last)
NewsShouldRetry(r, attempt) == r.raised /\ attempt < NewsMaxAttempts

\* what the wrapper raises when it stops: no reraise, so a RetryError that
\* wraps the last attempt
NewsPropagate(r) == Raise("RetryError")

\* tenacity.wait_exponential(multiplier, min, max) before the attempt that
\* follows attempt_number: max(max(0, min), min(multiplier * 2 ** (attempt_number - 1), max))
WaitExponential(multiplier, min, max, attempt_number) ==
    Max(Max(0, min), Min(multiplier * 2 ^ (attempt_number - 1), max))

\* wait=wait_exponential(multiplier=1, min=2, max=10)
NewsWait(attempt_number) == WaitExponential(1, 2, 10, attempt_number)

\* what the body of scrape_news can do as a whole: return the results (every
\* failure inside the per-topic try is caught there), or raise from a statement
\* outside the per-topic try
ScrapeOutcomes == { "ok", "overloaded", "other" }

ScrapeNewsBody(tps, outcome) ==
    CASE outcome = "ok" -> Ok([ t \in Range(tps) |-> ModelText("news", Headlines(t)) ])
      [] outcome = "overloaded" -> Raise("Overloaded")
      [] OTHER -> Raise("TypeError")

\* one attempt of scrape_news under its wrapper: hist is the history so far
ScrapeNewsStep(tps, outcome, attempt, hist) ==
    LET r == ScrapeNewsBody(tps, outcome)
        h == Append(hist, << "call", outcome, attempt >>)
        hr == Append(h, << "raised", r.kind, attempt >>)
    IN  IF ~ r.raised THEN [status |-> "return", r |-> r, hist |-> h]
        ELSE IF NewsShouldRetry(r, attempt)
        THEN [status |-> "retry", r |-> r,
              hist |-> Append(hr, << "wait", "", NewsWait(attempt) >>)]
        ELSE [status |-> "raise", r |-> NewsPropagate(r), hist |-> hr]

-----------------------------------------------------------------------------
(* Reddit / Twitter collectors: process_topic, scrape_reddit_topics and     *)
(* process_twitter_topic, scrape_twitter_topics                             *)

ForumMaxAttempts == 3

\* What agent.ainvoke can answer.  process_topic takes the agent as a
\* parameter: "text" and "model_error" are the answers of GeminiAgent /
\* TwitterAgent (which catches the failure of its model call and answers
\* with the unavailable text); "raise_overloaded" and "raise_other" are an
\* agent call that raises.  (An empty model answer is drawn for the news
\* summary only.)
AgentOutcomes ==
    { "text", "model_error", "model_overloaded", "raise_overloaded", "raise_other" }

\* the answers of the agent the collectors construct (GeminiAgent, TwitterAgent):
\* its model call returns, fails, or fails with a service-overloaded error
WiredOutcomes == { "text", "model_error", "model_overloaded" }

\* mutant: the agent lets an overloaded failure of its model call out
AgentInvokeRaisesOverloaded(src, topic, outcome) ==
    LET user_message == UserMessage(src, topic)
    IN  CASE outcome = "text"  -> Ok(ModelText(src, topic))
          [] outcome = "model_error" ->
                Ok(ForumPlaceholder(src, SplitSecond(user_message, "'")))
          [] outcome \in { "model_overloaded", "raise_overloaded" } -> Raise("Overloaded")
          [] OTHER -> Raise("SessionError")

AgentInvoke(src, topic, outcome) ==
    LET user_message == UserMessage(src, topic)
    IN  CASE outcome = "text"  -> Ok(ModelText(src, topic))
          [] outcome \in { "model_error", "model_overloaded" } ->
                Ok(ForumPlaceholder(src, SplitSecond(user_message, "'")))
          [] outcome = "raise_overloaded" -> Raise("Overloaded")
          [] OTHER -> Raise("SessionError")

\* one attempt of process_topic: the agent call and its except clause
ProcessAttempt(src, topic, outcome) ==
    LET r == AgentInvoke(src, topic, outcome)
    IN  IF r.raised /\ r.kind = "Overloaded" THEN Raise("MCPOverloadedError") ELSE r

\* mutant: stop_after_attempt(4)
ForumRetriesFourTimes(r, attempt) ==
    r.raised /\ r.kind = "MCPOverloadedError" /\ attempt < ForumMaxAttempts + 1

\* mutant: the retry predicate names the agent's error, not MCPOverloadedError
ForumRetriesRawKind(r, attempt) ==
    r.raised /\ r.kind = "Overloaded" /\ attempt < ForumMaxAttempts

\* retry=retry_if_exception_type(MCPOverloadedError), stop_after_attempt(3)
ForumShouldRetry(r, attempt) ==
    r.raised /\ r.kind = "MCPOverloadedError" /\ attempt < ForumMaxAttempts

\* reraise=True: the wrapper raises the exception of the last attempt
ForumPropagate(r) == r

\* wait=wait_exponential(multiplier=1, min=15, max=60)
ForumWait(attempt_number) == WaitExponential(1, 15, 60, attempt_number)

\* one attempt starts inside process_topic: async with the limiter, then
\* agent.ainvoke
AttemptEvents(src, outcome, attempt) ==
    << << "acquire", src, 0 >> >>
        \o (IF src = "reddit"
            THEN << << "issued", "", today >>, << "cutoff", "", two_weeks_ago >> >>
            ELSE << >>)
        \o << << "call", outcome, attempt >> >>

\* one attempt of process_topic / process_twitter_topic under its wrapper: hist
\* is the history of the earlier attempts for the topic
ProcessTopicStep(src, topic, outcome, attempt, hist) ==
    LET r == ProcessAttempt(src, topic, outcome)
        h == hist \o AttemptEvents(src, outcome, attempt)
        hr == Append(h, << "raised", r.kind, attempt >>)
    IN  IF ~ r.raised THEN [status |-> "return", r |-> r, hist |-> h]
        ELSE IF ForumShouldRetry(r, attempt)
        THEN [status |-> "retry", r |-> r,
              hist |-> Append(hr, << "wait", "", ForumWait(attempt) >>)]
        ELSE [status |-> "raise", r |-> ForumPropagate(r), hist |-> hr]

\* mutant: the session is left open
CloseSessionLeaks(src, lg) == lg

\* leaving the two "async with" blocks (stdio_client, ClientSession)
CloseSession(src, lg) == Append(lg, << "close", src, 0 >>)

AllUnavailable(src, tps) ==
    [ t \in Range(tps) |-> ForumPlaceholder(src, t) ]

\* mutant: the handler returns what the loop had collected so far
ForumCatchKeepsPartial(src, tps, r) == IF r.raised THEN Ok(col_res) ELSE r

\* mutant: the except clause around the session is missing
ForumNoCatch(src, tps, r) == r

\* except Exception as e around the session and the topic loop
ForumCatch(src, tps, r) == IF r.raised THEN Ok(AllUnavailable(src, tps)) ELSE r

-----------------------------------------------------------------------------
(* generate_news_audio: source selection and collector results *)

\* mutant: "both" also selects the twitter collector
SelectedTwitterWithBoth(src, st) ==
    CASE src = "news"    -> st \in { "news", "both", "all" }
      [] src = "reddit"  -> st \in { "reddit", "both", "all" }
      [] src = "twitter" -> st \in { "twitter", "both", "all" }

Selected(src, st) ==
    CASE src = "news"    -> st \in { "news", "both", "all" }
      [] src = "reddit"  -> st \in { "reddit", "both", "all" }
      [] src = "twitter" -> st \in { "twitter", "all" }

GateOf(src) ==
    CASE src = "news" -> "gate_news"
      [] src = "reddit" -> "gate_reddit"
      [] src = "twitter" -> "gate_twitter"

\* mutant: the twitter block placed before the reddit block
AfterSwapped(src) ==
    CASE src = "news" -> "gate_twitter"
      [] src = "twitter" -> "gate_reddit"
      [] src = "reddit" -> "compose"

After(src) ==
    CASE src = "news" -> "gate_reddit"
      [] src = "reddit" -> "gate_twitter"
      [] src = "twitter" -> "compose"

\* the try/except around scrape_reddit_topics and scrape_twitter_topics; the
\* call of scrape_news has none
BackendCatch(src, tps, r) ==
    IF r.raised /\ src # "news"
    THEN Ok([ t \in Range(tps) |-> BackendFallback(src) ])
    ELSE r

-----------------------------------------------------------------------------
(* Composer: generate_broadcast_news *)

\* results.get(src): the collector's {"<src>_analysis": dict}, or None.  An argument
\* of generate_broadcast_news is << dict >> when present and << >> when None.
NoData == << >>
DataOf(bundle, src) == IF src \in DOMAIN bundle THEN << bundle[src] >> ELSE NoData

\* news_data["news_analysis"].get(topic) if news_data else ''
ContentOf(data, topic) == IF data # NoData THEN Get(data[1], topic) ELSE << >>

\* mutant: a text that says "unavailable" is left out of the context
ContextEntryNoPlaceholder(label, content) ==
    IF Truthy(content)
          /\ content[Len(content)] \notin { " at this time.", " are currently unavailable." }
    THEN << [label |-> label, content |-> content] >>
    ELSE << >>

\* mutant: "if content is not None" instead of "if content"
ContextEntryNotNone(label, content) ==
    IF content # None THEN << [label |-> label, content |-> content] >> ELSE << >>

ContextEntry(label, content) ==
    IF Truthy(content) THEN << [label |-> label, content |-> content] >> ELSE << >>

\* context = []; one append per truthy content, news then reddit then twitter
ContextOf(topic, news_data, reddit_data, twitter_data) ==
    ContextEntry("OFFICIAL NEWS CONTENT:", ContentOf(news_data, topic))
        \o ContextEntry("REDDIT DISCUSSION CONTENT:", ContentOf(reddit_data, topic))
        \o ContextEntry("TWITTER DISCUSSION CONTENT:", ContentOf(twitter_data, topic))

\* if context: topic_blocks.append("TOPIC: {topic}" + the joined context)
BlockOf(topic, context) ==
    IF context # << >> THEN << [topic |-> topic, context |-> context] >> ELSE << >>

RECURSIVE TopicBlocks(_, _, _, _)
TopicBlocks(tps, news_data, reddit_data, twitter_data) ==
    IF tps = << >> THEN << >>
    ELSE BlockOf(Head(tps), ContextOf(Head(tps), news_data, reddit_data, twitter_data))
            \o TopicBlocks(Tail(tps), news_data, reddit_data, twitter_data)

\* mutant: no model call when there is no topic block
ComposerSkipsEmpty(blocks) == IF blocks = << >> THEN 0 ELSE 1

\* the number of model.generate_content calls of one generate_broadcast_news
ComposerModelCalls(blocks) == 1

Script == << "broadcast script" >>

\* mutant: the except clause returns an empty script instead of raising
GenerateBroadcastNewsSwallows(outcome) ==
    IF outcome = "text" THEN Ok(Script) ELSE Ok(<< >>)

\* return response.text, or except Exception as e: raise e
GenerateBroadcastNews(outcome) ==
    IF outcome = "text" THEN Ok(Script) ELSE Raise("ModelError")

\* mutant: generate_broadcast_news wrapped in a 3-attempt retry
ComposerRetries(attempt) == attempt < 3

\* generate_broadcast_news has no retry wrapper: a failed call is not repeated
ComposerShouldRetry(attempt) == FALSE

-----------------------------------------------------------------------------
(* Translator: the language test of generate_news_audio and                 *)
(* translate_for_language                                                   *)

\* if req.language != "en-US"
BackendTranslates(lang) == lang # EnUS

\* mutant: target_lang == "en-US" instead of startswith("en")
IsEnglishUS(target_lang) == target_lang = EnUS

\* if target_lang.startswith("en"): return text
IsEnglish(target_lang) == StartsWith(target_lang, << "e", "n" >>)

\* the text the model returns for the translation prompt
ModelTranslation(text, target_lang) ==
    << "\n", "translation to " >> \o target_lang \o << " of " >> \o text \o << "\n" >>

\* translate_for_language(api_key, text, target_lang) with the model answering
\* `outcome`
TranslateForLanguage(text, target_lang, outcome) ==
    IF IsEnglish(target_lang) THEN Ok(text)
    ELSE IF outcome = "fail" THEN Raise("ModelError")
    ELSE Ok(Strip(ModelTranslation(text, target_lang)))

\* the number of generate_content calls of one translate_for_language
TranslateModelCalls(target_lang) == IF IsEnglish(target_lang) THEN 0 ELSE 1

-----------------------------------------------------------------------------
(* Narrator: get_voice_for_language and text_to_audio_murf *)

DefaultVoice == << "en-US-natalie" >>

VOICE_BY_LANG ==
    (<< "e", "n" >> :> << "wayne" >>) @@ (<< "h", "i" >> :> << "shweta" >>)
        @@ (<< "e", "s" >> :> << "valeria" >>) @@ (<< "f", "r" >> :> << "victor" >>)
        @@ (<< "d", "e" >> :> << "max" >>) @@ (<< "i", "t" >> :> << "vera" >>)
        @@ (<< "j", "a" >> :> << "kei" >>) @@ (<< "k", "o" >> :> << "seo-yun" >>)
        @@ (<< "p", "t" >> :> << "pedro" >>) @@ (<< "r", "u" >> :> << "sofia" >>)
        @@ (<< "z", "h" >> :> << "xing" >>)

\* mutant: the table is looked up by the language part of the locale code
GetVoiceByLanguagePart(lang_code) ==
    LET part == SubSeq(lang_code, 1, Min(2, Len(lang_code)))
    IN  IF part \in DOMAIN VOICE_BY_LANG THEN VOICE_BY_LANG[part] ELSE DefaultVoice

GetVoiceForLanguage(lang_code) ==
    IF lang_code \in DOMAIN VOICE_BY_LANG THEN VOICE_BY_LANG[lang_code] ELSE DefaultVoice

NarratorOutcomes == { "ok", "no_key", "generate_fail", "no_url", "download_fail" }

\* fp = output_dir / f"tts_{datetime.now():%Y%m%d_%H%M%S}.mp3"
AudioPath == << "audio/tts_", "now", ".mp3" >>

\* mutant: the Narrator is handed the composed script, not the final one
NarratedTextUntranslated(composed, final) == composed

\* text_to_audio_murf(text=final_summary, ...)
NarratedText(composed, final) == final

Synthesized(text, voice_id) == [text |-> text, voice_id |-> voice_id]

\* base64.b64encode(...).decode()
B64(bytes) == << "b64", bytes >>

\* text_to_audio_murf: the returned path, or the exception raised
TextToAudioMurf(outcome) ==
    CASE outcome = "ok" -> Ok(AudioPath)
      [] outcome = "no_key" -> Raise("ValueError")
      [] outcome = "no_url" -> Raise("RuntimeError")
      [] OTHER -> Raise("SynthesisError")

\* client.text_to_speech.generate is reached unless the API key is missing
NarratorCalls(outcome) == IF outcome = "no_key" THEN 0 ELSE 1

\* if not (audio_path and Path(audio_path).exists())
AudioMissing(path, fs) == ~ (Truthy(path) /\ path \in DOMAIN fs)

-----------------------------------------------------------------------------
(* The request *)

Init ==
    /\ topics \in TopicLists
    /\ source_type \in SourceTypes
    /\ language \in Languages
    /\ pc = "gate_news"
    /\ results = EmptyDict
    /\ col_idx = 0
    /\ col_attempt = 0
    /\ col_res = EmptyDict
    /\ col_hist = << >>
    /\ col_calls = 0
    /\ session = "none"
    /\ log = << >>
    /\ prompt = << >>
    /\ summary_en = None
    /\ final_summary = None
    /\ calls = [compose |-> 0, translate |-> 0, narrate |-> 0]
    /\ failed = {}
    /\ audio_path = None
    /\ files = EmptyDict
    /\ response = NoResponse
    /\ rid = 1
    /\ other = NoOther
    /\ limiter_users = NoUsers
    /\ today = 0
    /\ two_weeks_ago = TwoWeeksAgo(today)
    /\ input_key = 0

\* except Exception as e: raise HTTPException(status_code=500, detail=str(e))
Fail(stage, kind) ==
    /\ pc' = "done"
    /\ response' = Http500(<< kind >>)
    /\ failed' = failed \cup { << stage, 0 >> }

\* the collector call of generate_news_audio returns r (or raises it) and the
\* collector's locals are gone; lg is the log up to that point
Deliver(src, r, lg) ==
    LET b == BackendCatch(src, topics, r)
    IN  /\ log' = Append(lg, << IF r.raised THEN "raise" ELSE "return", src, 0 >>)
        /\ col_idx' = 0
        /\ col_attempt' = 0
        /\ col_res' = EmptyDict
        /\ col_hist' = << >>
        /\ col_calls' = 0
        /\ session' = "none"
        /\ IF b.raised
           THEN /\ pc' = "done"
                /\ response' = Http500(<< b.kind >>)
                /\ results' = results
           ELSE /\ pc' = After(src)
                /\ response' = response
                /\ results' = Put(results, src, b.value)

\* if req.source_type in {...}: start the collector, else go on
Gate(src) ==
    /\ pc = GateOf(src)
    /\ IF Selected(src, source_type)
       THEN /\ pc' = src
            /\ col_idx' = 1
            /\ col_attempt' = 1
            /\ col_res' = EmptyDict
            /\ col_hist' = << >>
            /\ col_calls' = 0
            /\ session' = "none"
            /\ log' = Append(log, << "start", src, 0 >>)
       ELSE /\ pc' = After(src)
            /\ UNCHANGED << col_idx, col_attempt, col_res, col_hist, col_calls, session,
                            log >>
    /\ UNCHANGED << topics, source_type, language, results, prompt, summary_en,
                    final_summary, calls, failed, audio_path, files, response >>
    /\ UNCHANGED << limiter_users, process, switching, input_key >>

\* one iteration of the topic loop of scrape_news
NewsTopic(primary, secondary, extract, summ) ==
    /\ pc = "news"
    /\ col_idx \in 1..Len(topics)
    /\ LET t == topics[col_idx]
           body == NewsBody(t, primary, secondary, extract, summ)
           r == NewsCatch(t, body)
       IN  /\ failed' = IF body.raised THEN failed \cup { << "news", col_idx >> }
                        ELSE failed
           /\ IF ~ r.raised
              THEN /\ col_res' = Put(col_res, t, r.value)
                   /\ col_idx' = col_idx + 1
                   /\ col_hist' = NewsEvents(t, primary, secondary, extract, summ, col_idx)
                   /\ UNCHANGED << col_attempt, col_calls, session, pc, results, log,
                                   response >>
              ELSE IF NewsShouldRetry(r, col_attempt)
              THEN /\ col_attempt' = col_attempt + 1
                   /\ col_idx' = 1
                   /\ col_res' = EmptyDict
                   /\ col_hist' = << >>
                   /\ UNCHANGED << col_calls, session, pc, results, log, response >>
              ELSE Deliver("news", NewsPropagate(r), log)
    /\ limiter_users' = [limiter_users EXCEPT !["news"] = @ \cup { rid }]
    /\ UNCHANGED << topics, source_type, language, prompt, summary_en,
                    final_summary, calls, audio_path, files >>
    /\ UNCHANGED << process, switching, input_key >>

\* return {"news_analysis": results}
NewsReturn ==
    /\ pc = "news"
    /\ col_idx > Len(topics)
    /\ Deliver("news", Ok(col_res), log)
    /\ UNCHANGED << topics, source_type, language, prompt, summary_en,
                    final_summary, calls, failed, audio_path, files >>
    /\ UNCHANGED << limiter_users, process, switching, input_key >>

\* stdio_client / ClientSession / initialize / load_mcp_tools
ForumOpen(src, ok) ==
    /\ pc = src
    /\ src \in { "reddit", "twitter" }
    /\ session = "none"
    /\ IF ok
       THEN /\ session' = "open"
            /\ log' = Append(log, << "open", src, 0 >>)
            /\ UNCHANGED << col_idx, col_attempt, col_res, col_hist, col_calls, pc,
                            results, response, failed >>
       ELSE /\ failed' = failed \cup { << src, 0 >> }
            /\ Deliver(src, ForumCatch(src, topics, Raise("SessionError")),
                       Append(log, << "open_failed", src, 0 >>))
    /\ UNCHANGED << topics, source_type, language, prompt, summary_en,
                    final_summary, calls, audio_path, files >>
    /\ UNCHANGED << limiter_users, process, switching, input_key >>

\* one attempt of process_topic / process_twitter_topic under its retry wrapper,
\* and what the topic loop does with its result
ForumAttempt(src, outcome) ==
    /\ pc = src
    /\ session = "open"
    /\ col_idx \in 1..Len(topics)
    /\ LET t == topics[col_idx]
           step == ProcessTopicStep(src, t, outcome, col_attempt,
                                    IF col_attempt = 1 THEN << >> ELSE col_hist)
       IN  /\ failed' = IF outcome = "text" THEN failed ELSE failed \cup { << src, 0 >> }
           /\ CASE step.status = "return" ->
                    /\ col_res' = Put(col_res, t, step.r.value)
                    /\ col_idx' = col_idx + 1
                    /\ col_attempt' = 1
                    /\ col_hist' = step.hist \o << << "store", "summary", col_idx >>,
                                                  << "sleep", "", Pause(src) >> >>
                    /\ col_calls' = col_calls + 1
                    /\ UNCHANGED << session, pc, results, log, response >>
                [] step.status = "retry" ->
                    /\ col_attempt' = col_attempt + 1
                    /\ col_hist' = step.hist
                    /\ col_calls' = col_calls + 1
                    /\ UNCHANGED << col_idx, col_res, session, pc, results, log,
                                    response >>
                [] OTHER ->
                    Deliver(src, ForumCatch(src, topics, step.r),
                            CloseSession(src, Append(log, << "escape", src, col_idx >>)))
    /\ limiter_users' = [limiter_users EXCEPT ![src] = @ \cup { rid }]
    /\ UNCHANGED << topics, source_type, language, prompt, summary_en,
                    final_summary, calls, audio_path, files >>
    /\ UNCHANGED << process, switching, input_key >>

\* return {"reddit_analysis": reddit_results}
ForumReturn(src) ==
    /\ pc = src
    /\ session = "open"
    /\ col_idx > Len(topics)
    /\ Deliver(src, ForumCatch(src, topics, Ok(col_res)), CloseSession(src, log))
    /\ UNCHANGED << topics, source_type, language, prompt, summary_en,
                    final_summary, calls, failed, audio_path, files >>
    /\ UNCHANGED << limiter_users, process, switching, input_key >>

\* summary_en = generate_broadcast_news(...)
Compose(outcome) ==
    /\ pc = "compose"
    /\ LET blocks == TopicBlocks(topics, DataOf(results, "news"),
                                 DataOf(results, "reddit"), DataOf(results, "twitter"))
       IN  /\ prompt' = blocks
           /\ calls' = [calls EXCEPT !.compose = @ + ComposerModelCalls(blocks)]
    /\ log' = Append(log, << "call", "compose", 0 >>)
    /\ LET r == GenerateBroadcastNews(outcome)
       IN  IF ~ r.raised
           THEN /\ summary_en' = r.value
                /\ pc' = "translate"
                /\ response' = response
                /\ failed' = IF outcome = "fail" THEN failed \cup { << "compose", 0 >> }
                             ELSE failed
           ELSE IF ComposerShouldRetry(calls.compose + 1)
           THEN UNCHANGED << summary_en, pc, response, failed >>
           ELSE /\ Fail("compose", r.kind)
                /\ UNCHANGED summary_en
    /\ UNCHANGED << topics, source_type, language, results, col_idx, col_attempt,
                    col_res, col_hist, col_calls, session, final_summary, audio_path,
                    files, limiter_users, process, switching, input_key >>

\* if req.language != "en-US": final_summary = translate_for_language(...)
Translate(outcome) ==
    /\ pc = "translate"
    /\ IF BackendTranslates(language)
       THEN LET r == TranslateForLanguage(summary_en, language, outcome)
            IN  /\ calls' = [calls EXCEPT !.translate = @ + TranslateModelCalls(language)]
                /\ IF r.raised
                   THEN /\ Fail("translate", r.kind)
                        /\ UNCHANGED final_summary
                   ELSE /\ final_summary' = r.value
                        /\ pc' = "narrate"
                        /\ UNCHANGED << response, failed >>
       ELSE /\ final_summary' = summary_en
            /\ pc' = "narrate"
            /\ UNCHANGED << calls, response, failed >>
    /\ UNCHANGED << topics, source_type, language, results, col_idx, col_attempt,
                    col_res, col_hist, col_calls, session, log, prompt, summary_en,
                    audio_path, files, limiter_users, process, switching, input_key >>

\* voice_id = get_voice_for_language(...); audio_path = text_to_audio_murf(...)
Narrate(outcome) ==
    /\ pc = "narrate"
    /\ LET voice_id == GetVoiceForLanguage(language)
           r == TextToAudioMurf(outcome)
       IN  /\ calls' = [calls EXCEPT !.narrate = @ + NarratorCalls(outcome)]
           /\ IF r.raised
              THEN /\ Fail("narrate", r.kind)
                   /\ UNCHANGED << audio_path, files >>
              ELSE /\ files' = Put(files, r.value,
                                  Synthesized(NarratedText(summary_en, final_summary),
                                              voice_id))
                   /\ audio_path' = r.value
                   /\ pc' = "respond"
                   /\ UNCHANGED << response, failed >>
    /\ UNCHANGED << topics, source_type, language, results, col_idx, col_attempt,
                    col_res, col_hist, col_calls, session, log, prompt, summary_en,
                    final_summary, limiter_users, process, switching, input_key >>

\* the audio file check, the encoding and the JSONResponse
Respond ==
    /\ pc = "respond"
    /\ IF AudioMissing(audio_path, files)
       THEN Fail("audio", "RuntimeError")
       ELSE /\ response' = Http200(final_summary, B64(files[audio_path]))
            /\ pc' = "done"
            /\ UNCHANGED failed
    /\ UNCHANGED << topics, source_type, language, results, col_idx, col_attempt,
                    col_res, col_hist, col_calls, session, log, prompt, summary_en,
                    final_summary, calls, audio_path, files, limiter_users, process,
                    switching, input_key >>

Next ==
    \/ \E src \in Range(Sources) : Gate(src)
    \/ \E primary \in FetchOutcomes, secondary \in FetchOutcomes,
          extract \in ExtractOutcomes, summ \in ModelOutcomes :
            NewsTopic(primary, secondary, extract, summ)
    \/ NewsReturn
    \/ \E src \in { "reddit", "twitter" }, ok \in BOOLEAN : ForumOpen(src, ok)
    \/ \E src \in { "reddit", "twitter" }, outcome \in AgentOutcomes :
            ForumAttempt(src, outcome)
    \/ \E src \in { "reddit", "twitter" } : ForumReturn(src)
    \/ \E outcome \in { "text", "fail" } : Compose(outcome)
    \/ \E outcome \in { "text", "fail" } : Translate(outcome)
    \/ \E outcome \in NarratorOutcomes : Narrate(outcome)
    \/ Respond

Spec == Init /\ [][Next]_vars

\* the event loop runs the request's coroutine whenever it can take a step:
\* every external call it awaits returns or raises
SpecFair == Spec /\ WF_vars(Next)

-----------------------------------------------------------------------------
(* Two requests in one process.  generate_news_audio is a coroutine: the     *)
(* event loop runs one request at a time and can change to the other only   *)
(* where the running one awaits.  The variables of the request section are  *)
(* those of the running request, `other` holds those of the suspended one;  *)
(* files, the limiters and the module-level values belong to the process.   *)

\* the locals of the running request
Locals ==
    [topics |-> topics, source_type |-> source_type, language |-> language,
     pc |-> pc, results |-> results, col_idx |-> col_idx,
     col_attempt |-> col_attempt, col_res |-> col_res, col_hist |-> col_hist,
     col_calls |-> col_calls, session |-> session, log |-> log, prompt |-> prompt,
     summary_en |-> summary_en, final_summary |-> final_summary, calls |-> calls,
     failed |-> failed, audio_path |-> audio_path, response |-> response]

\* a request that has been received and has not started
NewRequest(tps, st, lang) ==
    [topics |-> tps, source_type |-> st, language |-> lang,
     pc |-> "gate_news", results |-> EmptyDict, col_idx |-> 0,
     col_attempt |-> 0, col_res |-> EmptyDict, col_hist |-> << >>,
     col_calls |-> 0, session |-> "none", log |-> << >>, prompt |-> << >>,
     summary_en |-> None, final_summary |-> None,
     calls |-> [compose |-> 0, translate |-> 0, narrate |-> 0],
     failed |-> {}, audio_path |-> None, response |-> NoResponse]

\* the sources the two requests choose from
TwoSourceTypes == { "news", "reddit" }

\* mutant: the event loop can also change requests between the writing of
\* the audio file and its reading
AtAwaitAlsoRespond(p) ==
    p \in { "gate_news", "news", "reddit", "twitter", "respond", "done" }

\* the running coroutine is at an await (the collector calls and the awaits
\* inside them), has not started, or has finished; composing, translating,
\* narrating and responding have no await
AtAwait(p) == p \in { "gate_news", "news", "reddit", "twitter", "done" }

\* mutant: the dict is one object of the process, seen by both requests
SwitchedInShared(current, suspended) == current

\* results = {} is a local of each call: the request switched in has its own
SwitchedIn(current, suspended) == suspended

InitTwo ==
    /\ topics = << TopicPlain >>
    /\ source_type \in TwoSourceTypes
    /\ language = EnUS
    /\ pc = "gate_news"
    /\ results = EmptyDict
    /\ col_idx = 0
    /\ col_attempt = 0
    /\ col_res = EmptyDict
    /\ col_hist = << >>
    /\ col_calls = 0
    /\ session = "none"
    /\ log = << >>
    /\ prompt = << >>
    /\ summary_en = None
    /\ final_summary = None
    /\ calls = [compose |-> 0, translate |-> 0, narrate |-> 0]
    /\ failed = {}
    /\ audio_path = None
    /\ files = EmptyDict
    /\ response = NoResponse
    /\ rid = 1
    /\ other \in { NewRequest(<< TopicQuoted >>, st, lang) :
                        st \in TwoSourceTypes, lang \in { EnUS, HiIN } }
    /\ limiter_users = NoUsers
    /\ today = 0
    /\ two_weeks_ago = TwoWeeksAgo(today)
    /\ input_key = 0

\* the event loop suspends the running request at an await and resumes the other
Switch ==
    /\ other # NoOther
    /\ AtAwait(pc)
    /\ other.pc # "done"
    /\ other' = Locals
    /\ rid' = 3 - rid
    /\ topics' = other.topics
    /\ source_type' = other.source_type
    /\ language' = other.language
    /\ pc' = other.pc
    /\ results' = SwitchedIn(results, other.results)
    /\ col_idx' = other.col_idx
    /\ col_attempt' = other.col_attempt
    /\ col_res' = SwitchedIn(col_res, other.col_res)
    /\ col_hist' = other.col_hist
    /\ col_calls' = other.col_calls
    /\ session' = other.session
    /\ log' = other.log
    /\ prompt' = other.prompt
    /\ summary_en' = other.summary_en
    /\ final_summary' = other.final_summary
    /\ calls' = other.calls
    /\ failed' = other.failed
    /\ audio_path' = other.audio_path
    /\ response' = other.response
    /\ UNCHANGED << files, limiter_users, process, input_key >>

NextTwo ==
    \/ Next
    \/ Switch

SpecTwo == InitTwo /\ [][NextTwo]_vars

-----------------------------------------------------------------------------
(* The Composer alone, on every bundle: any subset of the sources, every    *)
(* topic missing from, empty in, unavailable in or summarized in each of    *)
(* them                                                                      *)

\* the placeholder the collector of src records for topic t
PlaceholderOf(src, t) ==
    IF src = "news" THEN NewsPlaceholder(t) ELSE ForumPlaceholder(src, t)

SummaryTexts(src, t) == { << >>, ModelText(src, t), PlaceholderOf(src, t) }

TopicResults(src) ==
    UNION { { f \in [D -> UNION { SummaryTexts(src, t) : t \in D }] :
                \A t \in D : f[t] \in SummaryTexts(src, t) } : D \in SUBSET Topics }

Bundles ==
    UNION { { b \in [S -> UNION { TopicResults(src) : src \in S }] :
                \A src \in S : b[src] \in TopicResults(src) } : S \in SUBSET SourceSet }

InitComposer ==
    /\ topics \in TopicLists
    /\ results \in Bundles
    /\ source_type = "other"
    /\ language = EnUS
    /\ pc = "compose"
    /\ col_idx = 0
    /\ col_attempt = 0
    /\ col_res = EmptyDict
    /\ col_hist = << >>
    /\ col_calls = 0
    /\ session = "none"
    /\ log = << >>
    /\ prompt = << >>
    /\ summary_en = None
    /\ final_summary = None
    /\ calls = [compose |-> 0, translate |-> 0, narrate |-> 0]
    /\ failed = {}
    /\ audio_path = None
    /\ files = EmptyDict
    /\ response = NoResponse
    /\ rid = 1
    /\ other = NoOther
    /\ limiter_users = NoUsers
    /\ today = 0
    /\ two_weeks_ago = TwoWeeksAgo(today)
    /\ input_key = 0

NextComposer == \E outcome \in { "text", "fail" } : Compose(outcome)

SpecComposer == InitComposer /\ [][NextComposer]_vars

-----------------------------------------------------------------------------
(* The retry wrappers alone: one call of scrape_news(topics), or of           *)
(* process_topic / process_twitter_topic(agent, topics[1]), whose body        *)
(* answers with any of its outcomes at every attempt.  The call ends with a   *)
(* "return" or a "raise" event in col_hist.                                   *)

InitRetry ==
    /\ topics \in { tps \in TopicLists : Len(tps) >= 1 }
    /\ pc \in SourceSet
    /\ source_type = pc
    /\ language = EnUS
    /\ results = EmptyDict
    /\ col_idx = 1
    /\ col_attempt = 1
    /\ col_res = EmptyDict
    /\ col_hist = << >>
    /\ col_calls = 0
    /\ session = IF pc = "news" THEN "none" ELSE "open"
    /\ log = << >>
    /\ prompt = << >>
    /\ summary_en = None
    /\ final_summary = None
    /\ calls = [compose |-> 0, translate |-> 0, narrate |-> 0]
    /\ failed = {}
    /\ audio_path = None
    /\ files = EmptyDict
    /\ response = NoResponse
    /\ rid = 1
    /\ other = NoOther
    /\ limiter_users = NoUsers
    /\ today = 0
    /\ two_weeks_ago = TwoWeeksAgo(today)
    /\ input_key = 0

\* the wrapper has made one more attempt: it returns, waits for the next
\* attempt, or raises
RetryOutcome(step, stored) ==
    /\ CASE step.status = "return" ->
              /\ col_res' = stored
              /\ col_hist' = Append(step.hist, << "return", "", col_attempt >>)
              /\ pc' = "done"
              /\ UNCHANGED col_attempt
          [] step.status = "retry" ->
              /\ col_hist' = step.hist
              /\ col_attempt' = col_attempt + 1
              /\ UNCHANGED << col_res, pc >>
          [] OTHER ->
              /\ col_hist' = Append(step.hist, << "raise", step.r.kind, col_attempt >>)
              /\ pc' = "done"
              /\ UNCHANGED << col_res, col_attempt >>
    /\ UNCHANGED << topics, source_type, language, results, col_idx, session, log,
                    prompt, summary_en, final_summary, calls, failed, audio_path,
                    files, response, col_calls, limiter_users, process, switching, input_key >>

RetryScrapeNews(outcome) ==
    /\ pc = "news"
    /\ LET step == ScrapeNewsStep(topics, outcome, col_attempt, col_hist)
       IN  RetryOutcome(step, step.r.value)

RetryProcessTopic(src, outcome) ==
    /\ pc = src
    /\ LET t == topics[col_idx]
           step == ProcessTopicStep(src, t, outcome, col_attempt, col_hist)
       IN  RetryOutcome(step, Put(col_res, t, step.r.value))

NextRetry ==
    \/ \E outcome \in ScrapeOutcomes : RetryScrapeNews(outcome)
    \/ \E src \in { "reddit", "twitter" }, outcome \in AgentOutcomes :
            RetryProcessTopic(src, outcome)

SpecRetry == InitRetry /\ [][NextRetry]_vars

-----------------------------------------------------------------------------
(* Translator and Narrator for every language of the front end: the request *)
(* from the point where the Composer has returned the script                *)

Locale(a, b, c, d) == << a, b, "-", c, d >>

\* the values of LANGS
LANGS ==
    { Locale("e", "n", "U", "S"), Locale("h", "i", "I", "N"), Locale("e", "n", "I", "N"),
      Locale("t", "a", "I", "N"), Locale("b", "n", "I", "N"), Locale("e", "s", "M", "X"),
      Locale("z", "h", "C", "N"), Locale("j", "a", "J", "P") }

InitVoice ==
    /\ topics \in TopicLists
    /\ source_type = "other"
    /\ language \in LANGS
    /\ pc = "translate"
    /\ results = EmptyDict
    /\ col_idx = 0
    /\ col_attempt = 0
    /\ col_res = EmptyDict
    /\ col_hist = << >>
    /\ col_calls = 0
    /\ session = "none"
    /\ log = << << "call", "compose", 0 >> >>
    /\ prompt = << >>
    /\ summary_en = Script
    /\ final_summary = None
    /\ calls = [compose |-> 1, translate |-> 0, narrate |-> 0]
    /\ failed = {}
    /\ audio_path = None
    /\ files = EmptyDict
    /\ response = NoResponse
    /\ rid = 1
    /\ other = NoOther
    /\ limiter_users = NoUsers
    /\ today = 0
    /\ two_weeks_ago = TwoWeeksAgo(today)
    /\ input_key = 0

NextVoice ==
    \/ \E outcome \in { "text", "fail" } : Translate(outcome)
    \/ \E outcome \in NarratorOutcomes : Narrate(outcome)
    \/ Respond

SpecVoice == InitVoice /\ [][NextVoice]_vars

-----------------------------------------------------------------------------
(* The front end: the topic list of frontend.py main() and the request it   *)
(* posts.  pc = "frontend" while the user edits; Generate posts the request  *)
(* and the backend has it (pc = "gate_news")                                 *)

MaxAdds == 4

FrontendMaxTopics == 3

\* SOURCE_TYPES / the options of the "Data Sources" selectbox
FrontendSourceTypes == { "all", "news", "reddit", "twitter", "both" }

\* what the user can type into the topic field
FrontendInputs == { << >>, << " " >>, << " ", "a" >>, << "a", " " >>, TopicQuoted }

\* mutant: the button is disabled only above 3 topics
AddDisabledAbove(tps) == Len(tps) > FrontendMaxTopics

\* add_disabled = len(st.session_state.topics) >= 3
AddDisabled(tps) == Len(tps) >= FrontendMaxTopics

\* del lst[i]
Del(lst, i) == SubSeq(lst, 1, i - 1) \o SubSeq(lst, i + 1, Len(lst))

InitFrontend ==
    /\ topics = << >>
    /\ input_key = 0
    /\ source_type = "all"
    /\ language = EnUS
    /\ pc = "frontend"
    /\ results = EmptyDict
    /\ col_idx = 0
    /\ col_attempt = 0
    /\ col_res = EmptyDict
    /\ col_hist = << >>
    /\ col_calls = 0
    /\ session = "none"
    /\ log = << >>
    /\ prompt = << >>
    /\ summary_en = None
    /\ final_summary = None
    /\ calls = [compose |-> 0, translate |-> 0, narrate |-> 0]
    /\ failed = {}
    /\ audio_path = None
    /\ files = EmptyDict
    /\ response = NoResponse
    /\ rid = 1
    /\ other = NoOther
    /\ limiter_users = NoUsers
    /\ today = 0
    /\ two_weeks_ago = TwoWeeksAgo(today)

\* what no front end action touches
backend == << results, col_idx, col_attempt, col_res, col_hist, col_calls, session,
             log, prompt, summary_en, final_summary, calls, failed, audio_path, files,
             response, limiter_users, process, switching >>

\* the two selectboxes of the sidebar
Select(st, lang_code) ==
    /\ pc = "frontend"
    /\ source_type' = st
    /\ language' = lang_code
    /\ UNCHANGED << topics, input_key, pc, backend >>

\* if st.button("Add", disabled=add_disabled): if new_topic.strip(): ...
Add(new_topic) ==
    /\ pc = "frontend"
    /\ ~ AddDisabled(topics)
    /\ input_key < MaxAdds
    /\ IF Strip(new_topic) # << >>
       THEN /\ topics' = Append(topics, Strip(new_topic))
            /\ input_key' = input_key + 1
       ELSE UNCHANGED << topics, input_key >>
    /\ UNCHANGED << source_type, language, pc, backend >>

\* for i, topic in enumerate(topics[:3]): if button("Remove"): del topics[i]
Remove(i) ==
    /\ pc = "frontend"
    /\ i \in 1..Min(Len(topics), 3)
    /\ topics' = Del(topics, i)
    /\ UNCHANGED << source_type, language, input_key, pc, backend >>

\* if st.button("Generate Summary", disabled=len(topics) == 0): requests.post(...)
\* and the backend parses the body as a NewsRequest
Generate ==
    /\ pc = "frontend"
    /\ Len(topics) # 0
    /\ pc' = "gate_news"
    /\ UNCHANGED << topics, source_type, language, input_key, backend >>

NextFrontend ==
    \/ \E st \in FrontendSourceTypes, lang_code \in Languages : Select(st, lang_code)
    \/ \E new_topic \in FrontendInputs : Add(new_topic)
    \/ \E i \in 1..FrontendMaxTopics : Remove(i)
    \/ Generate

SpecFrontend == InitFrontend /\ [][NextFrontend]_vars

-----------------------------------------------------------------------------
(* The wrapped operations in a process that stays up over several days:     *)
(* reddit_scraper is imported once, requests keep coming                     *)

MaxDays == 2

\* midnight passes; nothing in the process is recomputed
Tick ==
    /\ today < MaxDays
    /\ today' = today + 1
    /\ UNCHANGED << topics, source_type, language, pc, results, col_idx, col_attempt,
                    col_res, col_hist, col_calls, session, log, prompt, summary_en,
                    final_summary, calls, failed, audio_path, files, response,
                    limiter_users, two_weeks_ago, switching, input_key >>

\* the process serves its next request: the same operation, called afresh
ServeNext ==
    /\ pc = "done"
    /\ pc' = source_type
    /\ col_attempt' = 1
    /\ col_res' = EmptyDict
    /\ col_hist' = << >>
    /\ UNCHANGED << topics, source_type, language, results, col_idx, col_calls,
                    session, log, prompt, summary_en, final_summary, calls, failed,
                    audio_path, files, response, limiter_users, process, switching, input_key >>

NextDays ==
    \/ NextRetry
    \/ Tick
    \/ ServeNext

SpecDays == InitRetry /\ [][NextDays]_vars

-----------------------------------------------------------------------------
(* The limiters alone.  NewsScraper._rate_limiter, mcp_limiter and            *)
(* twitter_limiter are aiolimiter.AsyncLimiter(max_rate, time_period): a      *)
(* leaky bucket of capacity max_rate that drains max_rate per time_period.    *)
(* acquire() adds 1 to the level when level + 1 <= max_rate, and otherwise    *)
(* sleeps and tests again.  Times are in tenths of a second and the level is  *)
(* scaled by time_period, so that all quantities are integers.  col_hist is   *)
(* the sequence of << "request", src, time >>, << "acquire", src, time >>.    *)

MaxAcquisitions == 4

Tenths(seconds) == seconds * 10

\* AsyncLimiter(5, 1), AsyncLimiter(1, 15), AsyncLimiter(2, 15)
LimiterMaxRate(src) ==
    CASE src = "news" -> 5
      [] src = "reddit" -> 1
      [] src = "twitter" -> 2

LimiterTimePeriod(src) == IF src = "news" THEN Tenths(1) ELSE Tenths(15)

GrantsOf(h) == [ i \in 1..Len(SelectSeq(h, IsAcquire)) |-> SelectSeq(h, IsAcquire)[i][3] ]

\* the scaled level right after the k-th acquisition
RECURSIVE LevelAfter(_, _, _)
LevelAfter(src, grants, k) ==
    IF k = 0 THEN 0
    ELSE LET before == IF k = 1 THEN 0
                       ELSE Max(LevelAfter(src, grants, k - 1)
                                    - LimiterMaxRate(src) * (grants[k] - grants[k - 1]), 0)
         IN  before + LimiterTimePeriod(src)

\* _leak(): the level at time t, not before the last acquisition
LevelAt(src, grants, t) ==
    IF grants = << >> THEN 0
    ELSE Max(LevelAfter(src, grants, Len(grants))
                 - LimiterMaxRate(src) * (t - grants[Len(grants)]), 0)

\* has_capacity(1): level + 1 <= max_rate
HasCapacity(src, grants, t) ==
    LevelAt(src, grants, t) + LimiterTimePeriod(src)
        <= LimiterMaxRate(src) * LimiterTimePeriod(src)

\* acquire() requested at time r is granted at the first test that finds
\* capacity: the task is woken when capacity comes up, or it tests again every
\* time_period / max_rate
GrantTimes(src, grants, r) ==
    LET T == LimiterTimePeriod(src)
        drip == T \div LimiterMaxRate(src)
        earliest == CHOOSE t \in r..(r + T) :
                        /\ HasCapacity(src, grants, t)
                        /\ \A u \in r..(t - 1) : ~ HasCapacity(src, grants, u)
        polled == CHOOSE t \in { r + k * drip : k \in 0..LimiterMaxRate(src) } :
                        /\ HasCapacity(src, grants, t)
                        /\ \A k \in 0..LimiterMaxRate(src) :
                              r + k * drip < t => ~ HasCapacity(src, grants, r + k * drip)
    IN  { earliest, polled }

\* the time between the start of one call and the next acquire() of the same
\* collector call: the call returns at once or after 2 s, then the pause; or a
\* whole period goes by
Gaps(src) == { Tenths(Pause(src)), Tenths(Pause(src)) + Tenths(2), LimiterTimePeriod(src) }

InitLimiter ==
    /\ topics = << >>
    /\ pc \in SourceSet
    /\ source_type = pc
    /\ language = EnUS
    /\ results = EmptyDict
    /\ col_idx = 1
    /\ col_attempt = 1
    /\ col_res = EmptyDict
    /\ col_hist = << >>
    /\ col_calls = 0
    /\ session = IF pc = "news" THEN "none" ELSE "open"
    /\ log = << >>
    /\ prompt = << >>
    /\ summary_en = None
    /\ final_summary = None
    /\ calls = [compose |-> 0, translate |-> 0, narrate |-> 0]
    /\ failed = {}
    /\ audio_path = None
    /\ files = EmptyDict
    /\ response = NoResponse
    /\ rid = 1
    /\ other = NoOther
    /\ limiter_users = NoUsers
    /\ today = 0
    /\ two_weeks_ago = TwoWeeksAgo(today)
    /\ input_key = 0

\* async with the limiter: requested gap after the acquisition before (the
\* first at time 0), granted at time g
LimiterAcquire(src, gap) ==
    /\ pc = src
    /\ Len(GrantsOf(col_hist)) < MaxAcquisitions
    /\ LET grants == GrantsOf(col_hist)
           r == IF grants = << >> THEN 0 ELSE grants[Len(grants)] + gap
       IN  \E g \in GrantTimes(src, grants, r) :
             col_hist' = col_hist \o << << "request", src, r >>, << "acquire", src, g >> >>
    /\ UNCHANGED << topics, source_type, language, pc, results, col_idx, col_attempt,
                    col_res, session, log, prompt, summary_en, final_summary, calls,
                    failed, audio_path, files, response, col_calls, limiter_users,
                    process, switching, input_key >>

NextLimiter == \E src \in SourceSet : \E gap \in Gaps(src) : LimiterAcquire(src, gap)

SpecLimiter == InitLimiter /\ [][NextLimiter]_vars

-----------------------------------------------------------------------------
(* Properties *)

LogHas(e) == \E i \in DOMAIN log : log[i] = e
Returned(src) == LogHas(<< "return", src, 0 >>)
Escaped(src) == \E k \in 1..Len(topics) : LogHas(<< "escape", src, k >>)
ComposerCalled == LogHas(<< "call", "compose", 0 >>)
DistinctPair == Len(topics) = 2 /\ topics[1] # topics[2]
DistinctTopics == \A i, j \in DOMAIN topics : i # j => topics[i] # topics[j]

\* C1: whenever a collector has returned, the key set of the mapping it
\* returned equals the set of the input topics: no topic dropped, no extra key.
C1_KeySetIsTopicSet ==
    \A src \in SourceSet :
        Returned(src) => src \in DOMAIN results /\ DOMAIN results[src] = Range(topics)

\* C1 witness: all three collectors returned for two distinct topics after a
\* fetch failure (news), a session failure (reddit) and an agent failure (twitter).
C1_Witness ==
    /\ DistinctPair
    /\ \A src \in SourceSet : Returned(src)
    /\ \E k \in 1..2 : << "news", k >> \in failed
    /\ LogHas(<< "open_failed", "reddit", 0 >>)
    /\ Escaped("twitter")

\* C2: no collector call ever raises to its caller; when the session could not
\* be opened or an exception escaped the per-topic call, every topic maps to
\* the source's unavailable text; when every news topic failed, every topic
\* maps to the news placeholder.
C2_CollectorNeverRaises ==
    /\ \A i \in DOMAIN log : log[i][1] # "raise"
    /\ \A src \in { "reddit", "twitter" } :
          (Returned(src) /\ (LogHas(<< "open_failed", src, 0 >>) \/ Escaped(src)))
              => \A t \in Range(topics) :
                    /\ t \in DOMAIN results[src]
                    /\ results[src][t] = ForumPlaceholder(src, t)
    /\ (Returned("news") /\ \A k \in 1..Len(topics) : << "news", k >> \in failed)
          => \A t \in Range(topics) :
                /\ t \in DOMAIN results["news"]
                /\ results["news"][t] = NewsPlaceholder(t)

\* C2 witness: with two distinct topics, every news topic failed, the reddit
\* session could not be opened, the twitter agent raised a non-retryable error
\* on the first topic, and all three collectors returned.
C2_Witness ==
    /\ DistinctPair
    /\ \A src \in SourceSet : Returned(src)
    /\ \A k \in 1..2 : << "news", k >> \in failed
    /\ LogHas(<< "open_failed", "reddit", 0 >>)
    /\ LogHas(<< "escape", "twitter", 1 >>)

EscapesAt(src, k) == ~ LogHas(<< "escape", src, k >>) /\ LogHas(<< "escape", src, k >>)'

\* One step in which an exception escapes the per-topic call of topic k: as
\* claimed, the collector goes on with the batch and every other topic
\* collected so far keeps its summary.
C3_Step ==
    \A src \in { "reddit", "twitter" } :
        \A k \in 1..Len(topics) :
            (DistinctTopics /\ EscapesAt(src, k)) =>
                /\ ~ Returned(src)' \/ k = Len(topics)
                /\ Returned(src)' =>
                      \A t \in DOMAIN col_res \ { topics[k] } :
                          /\ t \in DOMAIN results'[src]
                          /\ results'[src][t] = col_res[t]

\* C3 (as claimed): in every collector, an exception escaping the per-topic
\* call replaces only that topic by the placeholder; the batch is never aborted
\* and the summaries already collected are kept.
C3_OnlyFailingTopicIsReplaced == [][C3_Step]_vars

\* One step of a request: a failure inside a collector never fails the request
\* before the Composer is called, the Composer is called only with every selected
\* collector's result in the bundle, and a result once stored is never changed.
C4_Step ==
    /\ response'.status = 500 => ComposerCalled'
    /\ ComposerCalled' =>
          \A src \in SourceSet : Selected(src, source_type) => src \in DOMAIN results'
    /\ \A src \in DOMAIN results : src \in DOMAIN results' /\ results'[src] = results[src]
    /\ \A src \in DOMAIN results' \ DOMAIN results :
          \/ results'[src] = col_res
          \/ LogHas(<< "open_failed", src, 0 >>)'
          \/ Escaped(src)'

\* C4: every step keeps collector failures contained (see C4_Step): the request
\* fails only at or after the Composer call, with every selected collector's
\* own result in the bundle.
C4_FailuresAreContained == [][C4_Step]_vars

\* C4 witness: selection "all", two distinct topics; the reddit collector was
\* aborted by an agent failure while the news and twitter collectors returned
\* real summaries, and the Composer has been called.
C4_Witness ==
    /\ DistinctPair
    /\ source_type = "all"
    /\ ComposerCalled
    /\ Escaped("reddit")
    /\ \A t \in Range(topics) :
          /\ results["news"][t] = ModelText("news", Headlines(t))
          /\ results["twitter"][t] = ModelText("twitter", t)
          /\ results["reddit"][t] = ForumPlaceholder("reddit", t)

StageFailed == \E st \in { "compose", "translate", "narrate", "audio" } : << st, 0 >> \in failed

\* C5: a finished request has exactly one outcome: 200 with the script and the
\* audio content, or 500 with an error description; 200 is never answered
\* after a Composer, Translator or Narrator failure or without an audio file.
C5_SuccessOrFailure ==
    /\ response.status \in { 0, 200, 500 }
    /\ (pc = "done") <=> (response.status # 0)
    /\ response.status = 200 =>
          /\ ~ StageFailed
          /\ response.summary_text # None
          /\ response.summary_text = final_summary
          /\ response.audio_content # None
          /\ audio_path \in DOMAIN files
          /\ response.audio_content = B64(files[audio_path])
          /\ response.detail = None
          /\ calls.compose >= 1 /\ calls.narrate >= 1
    /\ response.status = 500 =>
          /\ response.detail # None
          /\ response.summary_text = None
          /\ response.audio_content = None

\* C5 witness: a 200 response of a translated request in which a collector
\* had failed.
C5_Witness ==
    /\ response.status = 200
    /\ language = HiIN
    /\ failed # {}
    /\ Len(topics) = 2


StartedSet == { src \in SourceSet : LogHas(<< "start", src, 0 >>) }

SelectionTable(st) ==
    CASE st = "news"    -> { "news" }
      [] st = "reddit"  -> { "reddit" }
      [] st = "twitter" -> { "twitter" }
      [] st = "both"    -> { "news", "reddit" }
      [] st = "all"     -> { "news", "reddit", "twitter" }

\* C6: for each of the five selection values no collector outside the table
\* is ever started, and once the Composer is called the collectors started
\* and the key set of the bundle are exactly the table's set.
C6_SelectionTable ==
    source_type \in { "news", "reddit", "twitter", "both", "all" } =>
        /\ StartedSet \subseteq SelectionTable(source_type)
        /\ DOMAIN results \subseteq SelectionTable(source_type)
        /\ ComposerCalled =>
              /\ StartedSet = SelectionTable(source_type)
              /\ DOMAIN results = SelectionTable(source_type)

\* C6 witness: selection "both", the Composer called with a bundle of exactly
\* news and reddit.
C6_Witness ==
    /\ source_type = "both"
    /\ ComposerCalled
    /\ DOMAIN results = { "news", "reddit" }
    /\ Len(topics) = 2

Rank(src) == CASE src = "news" -> 1 [] src = "reddit" -> 2 [] src = "twitter" -> 3

\* C7: collectors start in the order news, reddit, twitter; a collector starts
\* only after the one started before it has returned; the Composer is called
\* only after every selected collector has returned.
C7_SequentialCollectors ==
    /\ \A i, j \in DOMAIN log :
          (i < j /\ log[i][1] = "start" /\ log[j][1] = "start") =>
              /\ Rank(log[i][2]) < Rank(log[j][2])
              /\ \E k \in (i + 1)..(j - 1) : log[k] = << "return", log[i][2], 0 >>
    /\ \A c \in DOMAIN log :
          log[c] = << "call", "compose", 0 >> =>
              \A src \in SourceSet :
                  Selected(src, source_type) =>
                      \E k \in 1..(c - 1) : log[k] = << "return", src, 0 >>
    /\ \A src \in SourceSet :
          pc = src <=> (LogHas(<< "start", src, 0 >>) /\ ~ Returned(src))

\* C7 witness: selection "all" with two topics, all three collectors have
\* returned and the Composer has been called.
C7_Witness ==
    /\ source_type = "all"
    /\ Len(topics) = 2
    /\ \A src \in SourceSet : Returned(src)
    /\ ComposerCalled

PresentIn(src, t) ==
    /\ src \in DOMAIN results
    /\ t \in DOMAIN results[src]
    /\ results[src][t] # << >>

LabelOf(src) ==
    CASE src = "news" -> "OFFICIAL NEWS CONTENT:"
      [] src = "reddit" -> "REDDIT DISCUSSION CONTENT:"
      [] src = "twitter" -> "TWITTER DISCUSSION CONTENT:"

HasMaterial(t) == \E src \in SourceSet : PresentIn(src, t)

\* C8: the prompt has a block for a topic iff at least one of its news,
\* reddit, twitter summaries is present and non-empty (blocks in topic order),
\* and a block holds exactly the present non-empty summaries, in the order
\* news, reddit, twitter.
C8_PromptBlocks ==
    calls.compose >= 1 =>
        /\ Len(prompt) = Len(SelectSeq(topics, HasMaterial))
        /\ \A i \in DOMAIN prompt : prompt[i].topic = SelectSeq(topics, HasMaterial)[i]
        /\ \A t \in Topics :
              (\E i \in DOMAIN prompt : prompt[i].topic = t)
                  <=> (t \in Range(topics) /\ HasMaterial(t))
        /\ \A i \in DOMAIN prompt :
              LET b == prompt[i]
              IN  /\ \A src \in SourceSet :
                        (\E j \in DOMAIN b.context : b.context[j].label = LabelOf(src))
                            <=> PresentIn(src, b.topic)
                  /\ \A j \in DOMAIN b.context :
                        \E src \in SourceSet :
                            /\ b.context[j].label = LabelOf(src)
                            /\ b.context[j].content = results[src][b.topic]
                            /\ \A j2 \in DOMAIN b.context :
                                  j < j2 =>
                                      \E src2 \in SourceSet :
                                          /\ b.context[j2].label = LabelOf(src2)
                                          /\ Rank(src) < Rank(src2)

\* C8 witness: topics [a, b'c], a bundle with news for a only and reddit for
\* b'c only (twitter present but empty): the prompt has one block per topic.
C8_Witness ==
    /\ calls.compose >= 1
    /\ topics = << TopicPlain, TopicQuoted >>
    /\ DOMAIN results = SourceSet
    /\ PresentIn("news", TopicPlain) /\ ~ PresentIn("news", TopicQuoted)
    /\ PresentIn("reddit", TopicQuoted) /\ ~ PresentIn("reddit", TopicPlain)
    /\ ~ PresentIn("twitter", TopicPlain) /\ ~ PresentIn("twitter", TopicQuoted)
    /\ Len(prompt) = 2

\* C9: the Composer makes exactly one model call per request, whatever the
\* number of topics, and a failed call is not repeated: the request fails.
C9_OneComposerCall ==
    /\ calls.compose \in { 0, 1 }
    /\ ComposerCalled => calls.compose = 1
    /\ (pc \in { "translate", "narrate", "respond" } \/ response.status = 200)
          => calls.compose = 1 /\ << "compose", 0 >> \notin failed
    /\ << "compose", 0 >> \in failed =>
          /\ calls.compose = 1
          /\ pc = "done"
          /\ response.status = 500

\* C9 witness: the one Composer call of a two-topic request with three
\* sources failed and the request ended in 500.
C9_Witness ==
    /\ << "compose", 0 >> \in failed
    /\ DistinctPair
    /\ source_type = "all"
    /\ response.status = 500

BeginsWithEn(lang) == Len(lang) >= 2 /\ lang[1] = "e" /\ lang[2] = "n"
Translated == pc \in { "narrate", "respond" } \/ response.status = 200

\* C10: for a target language beginning with "en" no translation call is made
\* and the final script is the composed script; for every other language
\* exactly one translation call is made per request.
C10_TranslationIdentity ==
    /\ calls.translate \in { 0, 1 }
    /\ BeginsWithEn(language) => calls.translate = 0
    /\ (Translated /\ BeginsWithEn(language)) => final_summary = summary_en
    /\ (Translated /\ ~ BeginsWithEn(language)) => calls.translate = 1
    /\ << "translate", 0 >> \in failed => calls.translate = 1 /\ ~ BeginsWithEn(language)

\* C10 witness: a request in en-IN passed the Translator with the composed
\* script unchanged.
C10_Witness ==
    /\ language = EnIN
    /\ pc = "narrate"
    /\ final_summary = Script

\* a request in hi-IN passed the Translator with one translation call
C10_WitnessTranslated ==
    /\ language = HiIN
    /\ pc = "narrate"
    /\ calls.translate = 1
    /\ final_summary # summary_en

-----------------------------------------------------------------------------
(* Properties of the retry wrappers, the limiters and the topic loops *)

CallsOf(h) == SelectSeq(h, IsCall)
Outcomes(h) == [ i \in 1..Len(CallsOf(h)) |-> CallsOf(h)[i][2] ]
WaitsOf(h) == [ i \in 1..Len(SelectSeq(h, IsWait)) |-> SelectSeq(h, IsWait)[i][3] ]
HistHas(e) == \E i \in DOMAIN col_hist : col_hist[i] = e
LastEvent == col_hist[Len(col_hist)]
Forum == { "reddit", "twitter" }
Ovl == "raise_overloaded"

\* C11: process_topic / process_twitter_topic with an agent that raises the
\* overloaded error go on to another attempt after the 1st and the 2nd such
\* failure; with a success at attempt 3 they return that value after exactly 3
\* attempts; with a 3rd overloaded failure they stop after exactly 3 attempts
\* and raise the MCPOverloadedError of the 3rd attempt.
C11_OverloadedIsRetried ==
    source_type \in Forum =>
        LET o == Outcomes(col_hist)
            t == topics[col_idx]
        IN  /\ Len(o) <= 3
            /\ o \in { << Ovl >>, << Ovl, Ovl >> } => pc # "done" /\ col_attempt = Len(o) + 1
            /\ o = << Ovl, Ovl, "text" >> =>
                  /\ pc = "done"
                  /\ LastEvent = << "return", "", 3 >>
                  /\ t \in DOMAIN col_res /\ col_res[t] = ModelText(source_type, t)
            /\ o = << Ovl, Ovl, Ovl >> =>
                  /\ pc = "done"
                  /\ HistHas(<< "raised", "MCPOverloadedError", 3 >>)
                  /\ LastEvent = << "raise", "MCPOverloadedError", 3 >>

\* C11 witness: process_twitter_topic returned the summary at the 3rd attempt
\* after two overloaded failures.
C11_Witness ==
    /\ source_type = "twitter"
    /\ pc = "done"
    /\ Outcomes(col_hist) = << Ovl, Ovl, "text" >>
    /\ LastEvent = << "return", "", 3 >>

\* the kind of exception the attempt numbered k raised
RaisedAt(k, kind) == HistHas(<< "raised", kind, k >>)
NonRetryable == { "raise_other", "other" }

\* C12 (as claimed): in each of the three wrapped operations a failure of a
\* non-retryable kind ends the call after exactly one attempt with that
\* failure, and after 3 failed attempts the exception that reaches the caller
\* is the one the 3rd attempt raised.
C12_OnlyRetryableIsRetried ==
    LET o == Outcomes(col_hist)
    IN  /\ (o # << >> /\ o[1] \in NonRetryable) =>
              /\ pc = "done"
              /\ Len(o) = 1
              /\ LastEvent[1] = "raise" /\ RaisedAt(1, LastEvent[2])
        /\ (pc = "done" /\ Len(o) = 3 /\ LastEvent[1] = "raise") =>
              RaisedAt(3, LastEvent[2])

Pow2(n) == 2 ^ n
Cap(src) == IF src = "news" THEN 10 ELSE 60
Bases(src) == IF src = "news" THEN { 1, 2 } ELSE { 1, 15 }

\* C16 (as claimed): the k-th wait of a wrapped operation equals
\* min(base * 2^attempt, cap), for the base being the multiplier or the
\* configured minimum and the attempt counted from 0 or from 1; the waits never
\* decrease and never exceed the cap (60 s reddit/twitter, 10 s news).
C16_ExponentialBackoff ==
    LET w == WaitsOf(col_hist)
    IN  /\ \E base \in Bases(source_type), first \in { 0, 1 } :
              \A k \in DOMAIN w :
                  w[k] = Min(base * Pow2(k - 1 + first), Cap(source_type))
        /\ \A k \in DOMAIN w : w[k] <= Cap(source_type)
        /\ \A k \in DOMAIN w : k > 1 => w[k - 1] <= w[k]

\* C15 (as claimed): of the acquisitions of one limiter with N permits per
\* window at most N start in any window: the (N+1)th after any acquisition
\* starts no sooner than one window after it; every request is granted, at or
\* after the time it was made.
C15_AtMostNPerWindow ==
    LET g == GrantsOf(col_hist)
        N == LimiterMaxRate(source_type)
    IN  /\ \A i \in DOMAIN g :
              i + N \in DOMAIN g => g[i + N] - g[i] >= LimiterTimePeriod(source_type)
        /\ \A i \in DOMAIN col_hist :
              col_hist[i][1] = "request" =>
                  /\ i + 1 \in DOMAIN col_hist
                  /\ col_hist[i + 1][1] = "acquire"
                  /\ col_hist[i + 1][3] >= col_hist[i][3]

TopicDone == col_hist # << >> /\ LastEvent[1] = "sleep"
Running(src) == pc = src /\ col_hist # << >>

\* C13 (as claimed): with the agent the collectors construct, a topic whose
\* upstream call failed with a service-overloaded error is given up only after
\* 3 attempts, and a topic with any other failure after one attempt.
C13_WiredOverloadIsRetried ==
    \A src \in Forum :
        (Running(src) /\ TopicDone /\ Outcomes(col_hist) \in Seq(WiredOutcomes)) =>
            LET o == Outcomes(col_hist)
            IN  /\ o[1] = "model_overloaded" => (Len(o) = 3 \/ o[Len(o)] = "text")
                /\ o[1] = "model_error" => Len(o) = 1

\* C14 (as claimed): for one topic a collector acquires the limiter permit
\* exactly once, before the first attempt; retry attempts acquire no further
\* permit; no call starts without a permit acquired before it.
C14_OnePermitPerTopic ==
    \A src \in SourceSet :
        Running(src) =>
            /\ Len(SelectSeq(col_hist, IsAcquire)) = 1
            /\ IsAcquire(col_hist[1])

\* C17: in the news collector, when the extraction yields no headlines the
\* summarizer is still called, with the stand-in text naming the topic; when
\* it answers, the topic's result is the summary of the stand-in and not the
\* placeholder; the collector does not raise.
C17_StandInIsSummarized ==
    (Running("news") /\ HistHas(<< "extract", "none", 0 >>)) =>
        LET k == col_idx - 1
            t == topics[k]
        IN  /\ HistHas(<< "summarize", "standin", 0 >>)
            /\ HistHas(<< "summarized", "text", 0 >>) =>
                  /\ HistHas(<< "store", "summary", k >>)
                  /\ col_res[t] = ModelText("news", StandIn(t))
                  /\ col_res[t] # NewsPlaceholder(t)
            /\ ~ LogHas(<< "raise", "news", 0 >>)

\* C17 witness: the second of two distinct topics had no headlines and its
\* result is the summary of the stand-in.
C17_Witness ==
    /\ DistinctPair
    /\ Running("news")
    /\ col_idx = 3
    /\ HistHas(<< "extract", "none", 0 >>)
    /\ HistHas(<< "summarized", "text", 0 >>)
    /\ col_res[topics[2]] = ModelText("news", StandIn(topics[2]))

IsPrimary(e) == e[1] = "primary"
IsSecondary(e) == e[1] = "secondary"
IsFetch(e) == IsPrimary(e) \/ IsSecondary(e)

\* C18: for each news topic the primary fetch is made once; the secondary
\* fetch is made iff the primary raised, once and after it; the topic goes on
\* to extraction iff one of the two succeeded, and gets the placeholder without
\* a summarizer call only when both have failed.
C18_SecondaryIffPrimaryFailed ==
    Running("news") =>
        LET f == SelectSeq(col_hist, IsFetch)
        IN  /\ Len(SelectSeq(col_hist, IsPrimary)) = 1
            /\ IsPrimary(f[1])
            /\ Len(SelectSeq(col_hist, IsSecondary)) = (IF f[1][2] = "fail" THEN 1 ELSE 0)
            /\ f[1][2] = "ok" => f = << << "primary", "ok", 0 >> >>
            /\ (\E e \in Range(col_hist) : e[1] = "extract") <=> f[Len(f)][2] = "ok"
            /\ (\E k \in 1..Len(topics) : HistHas(<< "store", "placeholder", k >>)
                    /\ ~ \E e \in Range(col_hist) : e[1] = "summarize")
                  => f = << << "primary", "fail", 0 >>, << "secondary", "fail", 0 >> >>

\* C18 witness: a topic whose primary fetch failed and whose secondary fetch
\* succeeded got a summary, after a topic for which both fetches failed.
C18_Witness ==
    /\ DistinctPair
    /\ Running("news")
    /\ col_idx = 3
    /\ << "news", 1 >> \in failed
    /\ col_res[topics[1]] = NewsPlaceholder(topics[1])
    /\ HistHas(<< "primary", "fail", 0 >>)
    /\ HistHas(<< "secondary", "ok", 0 >>)
    /\ HistHas(<< "store", "summary", 2 >>)

CountLog(e) == Cardinality({ i \in DOMAIN log : log[i] = e })
Opened(src) == LogHas(<< "open", src, 0 >>)

\* C19: a reddit / twitter collector call opens at most one tool session, and
\* exactly one unless the opening itself fails; agent calls are made only while
\* that session is open; the session is closed, once, before the collector
\* returns, on the success path and on every failure path.
C19_OneSessionPerBatch ==
    \A src \in Forum :
        /\ CountLog(<< "open", src, 0 >>) + CountLog(<< "open_failed", src, 0 >>) <= 1
        /\ CountLog(<< "close", src, 0 >>) <= CountLog(<< "open", src, 0 >>)
        /\ Running(src) => session = "open" /\ Opened(src)
        /\ (pc = src /\ session = "open") <=> (Opened(src) /\ ~ LogHas(<< "close", src, 0 >>))
        /\ Returned(src) =>
              /\ CountLog(<< "open", src, 0 >>) + CountLog(<< "open_failed", src, 0 >>) = 1
              /\ CountLog(<< "close", src, 0 >>) = CountLog(<< "open", src, 0 >>)
              /\ \A i, j \in DOMAIN log :
                    (log[i] = << "close", src, 0 >> /\ log[j] = << "return", src, 0 >>)
                        => i < j
              /\ session = "none" \/ pc \in Forum \ { src }

\* C19 witness: with two topics, the reddit collector returned on its success
\* path and the twitter collector after an exception at its second topic, each
\* having opened and closed one session.
C19_Witness ==
    /\ DistinctPair
    /\ Returned("reddit") /\ ~ Escaped("reddit") /\ Opened("reddit")
    /\ Returned("twitter") /\ LogHas(<< "escape", "twitter", 2 >>)
    /\ CountLog(<< "close", "twitter", 0 >>) = 1

PauseTable(src) == CASE src = "news" -> 1 [] src = "reddit" -> 5 [] src = "twitter" -> 3

\* One step of a running collector: it stays at its topic or moves to the next
\* one in input order; it moves on exactly when it has stored that topic's
\* result and slept the source's pause; the first attempt of a topic is made
\* only at the start or after the pause of the topic before.
C20_Step ==
    \A src \in SourceSet :
        (pc = src /\ pc' = src) =>
            /\ col_idx' \in { col_idx, col_idx + 1 }
            /\ col_idx' = col_idx + 1 =>
                  /\ col_hist' # << >>
                  /\ col_hist'[Len(col_hist')] = << "sleep", "", PauseTable(src) >>
                  /\ col_hist'[Len(col_hist') - 1][1] = "store"
                  /\ col_hist'[Len(col_hist') - 1][3] = col_idx
                  /\ DOMAIN col_res' = DOMAIN col_res \cup { topics[col_idx] }
            /\ (col_idx' = col_idx /\ col_hist' # col_hist) =>
                  /\ col_attempt' = col_attempt + 1
                  /\ col_hist'[Len(col_hist')][1] = "wait"
            /\ (col_hist' # col_hist /\ col_attempt = 1) =>
                  \/ col_hist = << >> /\ col_idx = 1
                  \/ /\ col_hist[Len(col_hist)] = << "sleep", "", PauseTable(src) >>
                     /\ col_hist[Len(col_hist) - 1][3] = col_idx - 1

\* C20: within one collector call the topics are processed in input order, one
\* at a time, and the call for the next topic starts only after the call for
\* the topic before has finished with all its attempts and the pause of the
\* source (news 1 s, reddit 5 s, twitter 3 s) has been slept.
C20_TopicsInOrderWithPause == [][C20_Step]_vars

\* C20 witness: the twitter collector finished its second topic at the third
\* attempt, after the first topic and its pause.
C20_Witness ==
    /\ DistinctPair
    /\ Running("twitter")
    /\ col_idx = 3
    /\ Outcomes(col_hist) = << Ovl, Ovl, "text" >>
    /\ LastEvent = << "sleep", "", 3 >>
    /\ DOMAIN col_res = Range(topics)

-----------------------------------------------------------------------------
(* Credentials *)

\* C23 (as claimed): a request that fails on a missing credential fails at
\* once: no collector has been started and no model call has been made when the
\* missing speech key is reported to the caller.
C23_MissingKeyFailsFirst ==
    response.detail = << "ValueError" >> =>
        /\ log = << >>
        /\ calls.compose = 0
        /\ calls.translate = 0

-----------------------------------------------------------------------------
(* Placeholders *)

\* C25 (as claimed): what a reddit / twitter collector records for a topic is
\* the model's summary of it or one placeholder, the same on every failure path,
\* which names the whole topic.
C25_OnePlaceholderPerTopic ==
    \A src \in Forum :
        Returned(src) =>
            \A t \in DOMAIN results[src] :
                results[src][t] \in { ModelText(src, t), ForumPlaceholder(src, t) }

-----------------------------------------------------------------------------
(* Composer, Translator, Narrator *)

Stages == { "compose", "translate", "narrate", "respond" }

\* the stages follow one another, none is entered again
StageOrder ==
    pc' # pc =>
        /\ pc = "compose" => pc' \in { "translate", "done" }
        /\ pc = "translate" => pc' \in { "narrate", "done" }
        /\ pc = "narrate" => pc' \in { "respond", "done" }
        /\ pc = "respond" => pc' = "done"
        /\ pc' = "compose" => pc \notin Stages \cup { "done" }
        /\ pc = "done" => FALSE

\* the text of the audio file is the final script
NarratedIsFinal ==
    /\ calls.compose <= 1 /\ calls.translate <= 1 /\ calls.narrate <= 1
    /\ pc = "compose" => calls.translate = 0 /\ calls.narrate = 0
    /\ pc = "translate" => calls.narrate = 0
    /\ audio_path \in DOMAIN files =>
          /\ files[audio_path].text = final_summary
          /\ calls.translate = 1 =>
                files[audio_path].text = Strip(ModelTranslation(summary_en, language))
    /\ response.status = 200 =>
          /\ audio_path \in DOMAIN files
          /\ response.summary_text = files[audio_path].text

\* C28: the stages run in the order Composer, Translator, Narrator, each at
\* most once; the text narrated is the final script (the translation when one
\* was made) and it is the script the response carries.
C28_NarratedIsReturned == [] NarratedIsFinal /\ [][StageOrder]_vars

\* C28 witness: a hi-IN request answered 200 whose audio was synthesized from
\* the translation, which differs from the composed script
C28_Witness ==
    /\ language = HiIN
    /\ response.status = 200
    /\ calls.compose = 1 /\ calls.translate = 1 /\ calls.narrate = 1
    /\ files[audio_path].text # summary_en
    /\ response.summary_text = files[audio_path].text

-----------------------------------------------------------------------------
(* News: failures inside the topic loop *)

\* no later one of the first n topics equals topic k (a later equal topic
\* overwrites its entry)
LastOf(k, n) == \A j \in (k + 1)..n : topics[j] # topics[k]

\* one step of the news collector goes to the next topic of the same pass
NewsOnePass ==
    (pc = "news" /\ pc' = "news") =>
        /\ col_attempt' = col_attempt
        /\ col_idx' = col_idx + 1

\* the news collector is in its first pass, has not raised, and made at most
\* one primary fetch, one secondary fetch and one summarizer call for its topic
NewsFailuresCaught ==
    /\ pc = "news" => col_attempt = 1 /\ col_idx \in 1..(Len(topics) + 1)
    /\ ~ LogHas(<< "raise", "news", 0 >>)
    /\ Running("news") =>
          /\ Len(SelectSeq(col_hist, IsPrimary)) <= 1
          /\ Len(SelectSeq(col_hist, IsSecondary)) <= 1
          /\ Cardinality({ i \in DOMAIN col_hist : col_hist[i][1] = "summarize" }) <= 1
          /\ \A k \in 1..(col_idx - 1) :
                (<< "news", k >> \in failed /\ LastOf(k, col_idx - 1))
                    => col_res[topics[k]] = NewsPlaceholder(topics[k])
    /\ Returned("news") =>
          \A k \in 1..Len(topics) :
              (<< "news", k >> \in failed /\ LastOf(k, Len(topics)))
                  => results["news"][topics[k]] = NewsPlaceholder(topics[k])

\* C30: every failure of a per-topic step of the news collector is caught in
\* the topic loop: the whole-batch retry is never triggered by it, each topic
\* is fetched and summarized at most once per collector call and the topic
\* list is traversed exactly once.
C30_PerTopicFailuresCaught == [] NewsFailuresCaught /\ [][NewsOnePass]_vars

\* C30 witness: both topics of a request failed (one in its fetches, one in
\* its summarization) and the collector is still in its first pass
C30_Witness ==
    /\ DistinctPair
    /\ pc = "news"
    /\ col_idx = 3
    /\ col_attempt = 1
    /\ << "news", 1 >> \in failed
    /\ << "news", 2 >> \in failed
    /\ HistHas(<< "summarized", "fail", 0 >>)

-----------------------------------------------------------------------------
(* Reddit: the lookback window *)

\* C24 (as claimed): in every reddit topic query, of every request the process
\* serves, the cutoff date put into the query is 14 days before the day on
\* which the query is issued.
C24_CutoffIs14DaysBefore ==
    \A i \in DOMAIN col_hist :
        col_hist[i][1] = "issued" =>
            col_hist[i + 1] = << "cutoff", "", col_hist[i][3] - 14 >>

-----------------------------------------------------------------------------
(* The front end *)

Blank(topic) == Strip(topic) = << >>

\* C26 (as claimed): the topic list the front end sends, and the backend
\* processes, holds no two equal topics.
C26_TopicsUnique == pc = "gate_news" => DistinctTopics

\* C27: after any sequence of Add and Remove the topic list holds at most 3
\* entries, none of them blank, and a request is sent only with at least one
\* topic: every request sent carries 1 to 3 topics.
C27_OneToThreeTopics ==
    /\ Len(topics) <= 3
    /\ \A i \in DOMAIN topics : ~ Blank(topics[i]) /\ topics[i] = Strip(topics[i])
    /\ pc = "gate_news" => Len(topics) \in 1..3

\* C27 witness: a request sent with 3 topics, after 4 additions (one topic
\* was removed on the way), one of them typed with blanks around it
C27_Witness ==
    /\ pc = "gate_news"
    /\ Len(topics) = 3
    /\ input_key = 4
    /\ TopicPlain \in Range(topics)

-----------------------------------------------------------------------------
(* Termination *)

\* the calls of the running collector are bounded: at most 3 attempts for a
\* topic, at most 3 agent calls for each topic gone through, at most 3 passes
\* of the news collector
CallsBounded ==
    /\ pc \in Forum =>
          /\ col_attempt <= 3
          /\ col_calls <= 3 * (col_idx - 1) + (col_attempt - 1)
          /\ col_calls <= 3 * Len(topics)
    /\ pc = "news" => col_attempt <= 3 /\ col_idx <= Len(topics) + 1

Answered == pc = "done" /\ response.status \in { 200, 500 }

\* C29: every request ends with a response, whatever the topics and the
\* upstream failures; a reddit / twitter collector call makes at most 3 agent
\* calls per topic and a news collector call at most 3 passes.
C29_Terminates == [] CallsBounded /\ <> Answered

\* C29 witness: a twitter collector made 6 agent calls for 2 topics, each
\* answered at the third attempt
C29_Witness ==
    /\ pc = "twitter"
    /\ Len(topics) = 2
    /\ col_idx = 3
    /\ col_calls = 3 * Len(topics)

-----------------------------------------------------------------------------
(* Two concurrent requests *)

\* C21 (as claimed): a limiter is acquired from by the collectors of one
\* request only: two requests never take permits from the same limiter.
C21_LimiterOwnedByOneRequest ==
    \A src \in SourceSet : Cardinality(limiter_users[src]) <= 1

\* the texts a collector can record for topic t of source src
TextsFor(src, t) ==
    IF src = "news"
    THEN { ModelText("news", Headlines(t)), ModelText("news", StandIn(t)),
           NewsPlaceholder(t) }
    ELSE { ModelText(src, t), ForumPlaceholder(src, t),
           ForumPlaceholder(src, SplitSecond(UserMessage(src, t), "'")),
           BackendFallback(src) }

\* the dict d of one collector holds entries of the topics tps only
OwnEntries(src, d, tps) ==
    /\ DOMAIN d \subseteq Range(tps)
    /\ \A t \in DOMAIN d : d[t] \in TextsFor(src, t)

\* the locals l of a request hold its own results only, and its prompt was
\* built from its own bundle
OwnBundle(l) ==
    /\ \A src \in DOMAIN l.results :
          /\ Selected(src, l.source_type)
          /\ DOMAIN l.results[src] = Range(l.topics)
          /\ OwnEntries(src, l.results[src], l.topics)
    /\ l.pc \in SourceSet => OwnEntries(l.pc, l.col_res, l.topics)
    /\ l.pc \notin SourceSet => l.col_res = EmptyDict
    /\ l.calls.compose >= 1 =>
          l.prompt = TopicBlocks(l.topics, DataOf(l.results, "news"),
                                 DataOf(l.results, "reddit"),
                                 DataOf(l.results, "twitter"))

\* C22: under every interleaving of two requests, each request's bundle holds
\* only results collected for its own topics and selected sources, and its
\* script is composed from its own bundle only.
C22_BundlesAreSeparate == OwnBundle(Locals) /\ OwnBundle(other)

\* C22 witness: both requests are in the middle of a collector call, each
\* with its own topic collected, and the second one is running
C22_Witness ==
    /\ rid = 2
    /\ pc \in SourceSet /\ DOMAIN col_res = { TopicQuoted }
    /\ other.pc \in SourceSet /\ DOMAIN other.col_res = { TopicPlain }

-----------------------------------------------------------------------------
(* Reddit / Twitter: a model failure inside the agent *)

ModelFailures == { "model_error", "model_overloaded" }

\* the unavailable text the agent answers with for topic t
AgentUnavailable(src, t) == ForumPlaceholder(src, SplitSecond(UserMessage(src, t), "'"))

\* a topic whose first agent call failed in the model call was attempted once
\* and has the agent's unavailable text as its summary
ModelFailureIsContent ==
    \A src \in Forum :
        (Running(src) /\ Outcomes(col_hist) # << >>
                /\ Outcomes(col_hist)[1] \in ModelFailures) =>
            /\ Len(Outcomes(col_hist)) = 1
            /\ TopicDone
            /\ col_attempt = 1
            /\ ~ \E e \in Range(col_hist) : e[1] = "raised"
            /\ col_res[topics[col_idx - 1]] = AgentUnavailable(src, topics[col_idx - 1])

\* storing one topic's summary leaves the other topics' summaries as they are,
\* and a collector that went through all topics returns what it collected
OthersKept ==
    /\ (pc \in Forum /\ pc' = pc /\ col_idx' = col_idx + 1) =>
          \A t \in DOMAIN col_res \ { topics[col_idx] } : col_res'[t] = col_res[t]
    /\ (pc \in Forum /\ pc' # pc /\ col_idx > Len(topics)) =>
          /\ pc \in DOMAIN results'
          /\ results'[pc] = col_res
          /\ log'[Len(log')] = << "return", pc, 0 >>
          /\ ~ \E k \in 1..Len(topics) : << "escape", pc, k >> \in Range(log')

\* C31: in the reddit / twitter collectors a model failure inside the agent
\* for one topic gives that topic the unavailable text after exactly one
\* attempt; the other topics are processed and keep their summaries and the
\* collector returns the batch on its success path.
C31_ModelFailureIsContent == [] ModelFailureIsContent /\ [][OthersKept]_vars

\* C31 witness: a reddit collector returned, on its success path, the
\* unavailable text for its first topic and the summary of its second
C31_Witness ==
    /\ DistinctPair
    /\ Returned("reddit")
    /\ ~ Escaped("reddit")
    /\ results["reddit"][topics[1]] = AgentUnavailable("reddit", topics[1])
    /\ results["reddit"][topics[2]] = ModelText("reddit", topics[2])

-----------------------------------------------------------------------------
(* Composer: placeholders *)

BlockFor(t) == { i \in DOMAIN prompt : prompt[i].topic = t }

\* every source of the bundle has an entry for t
InEvery(t) == \A src \in DOMAIN results : t \in DOMAIN results[src]

\* C32: a placeholder counts as material: a topic for which a source returned
\* its placeholder has a block in the prompt, with that placeholder in it; with
\* at least one source in the bundle a topic has no block only when every
\* source returned an empty string for it.
C32_PlaceholderIsMaterial ==
    calls.compose >= 1 =>
        \A t \in Range(topics) :
            /\ \A src \in DOMAIN results :
                  Get(results[src], t) = PlaceholderOf(src, t) =>
                      \E i \in BlockFor(t) :
                          [label |-> LabelOf(src), content |-> PlaceholderOf(src, t)]
                              \in Range(prompt[i].context)
            /\ (BlockFor(t) = {} /\ DOMAIN results # {} /\ InEvery(t)) =>
                  \A src \in DOMAIN results : results[src][t] = << >>

\* C32 witness: all three sources returned their placeholder for the first
\* topic, which has a block of three entries, and an empty string for the
\* second, which has none
C32_Witness ==
    /\ calls.compose = 1
    /\ topics = << TopicPlain, TopicQuoted >>
    /\ DOMAIN results = SourceSet
    /\ \A src \in SourceSet :
          /\ Get(results[src], TopicPlain) = PlaceholderOf(src, TopicPlain)
          /\ Get(results[src], TopicQuoted) = << >>
    /\ Len(prompt) = 1
    /\ prompt[1].topic = TopicPlain
    /\ Len(prompt[1].context) = 3

-----------------------------------------------------------------------------
(* An unrecognised selection *)

Recognised == { "news", "reddit", "twitter", "both", "all" }

\* C33: with a source_type outside the five values the request is not
\* rejected: no collector starts, the bundle stays empty, the Composer model
\* call is made exactly once, with no topic block, and the request goes on to
\* translation and narration; it fails only where any request can fail, in
\* the Composer or after it.
C33_UnrecognisedSelection ==
    source_type \notin Recognised =>
        /\ StartedSet = {}
        /\ results = EmptyDict
        /\ calls.compose <= 1
        /\ ComposerCalled => calls.compose = 1 /\ prompt = << >>
        /\ pc \in { "translate", "narrate", "respond" } => ComposerCalled
        /\ response.status \in { 200, 500 } => ComposerCalled
        /\ response.status = 500 => StageFailed
        /\ response.status = 200 =>
              /\ calls.translate = TranslateModelCalls(language)
              /\ calls.narrate = 1
              /\ response.summary_text = final_summary

\* C33 witness: a request with an unrecognised source_type in hi-IN was
\* answered 200 after one Composer call with an empty prompt, one translation
\* and one narration
C33_Witness ==
    /\ source_type \notin Recognised
    /\ Len(topics) = 2
    /\ language = HiIN
    /\ response.status = 200
    /\ calls = [compose |-> 1, translate |-> 1, narrate |-> 1]
    /\ prompt = << >>
    /\ results = EmptyDict

-----------------------------------------------------------------------------
(* Two concurrent requests: the audio file *)

\* the audio content of the response of the request with locals l is the
\* audio synthesized from its own final script
OwnAudio(l) ==
    l.response.status = 200 =>
        l.response.audio_content
            = B64(Synthesized(l.final_summary, GetVoiceForLanguage(l.language)))

\* C34: under every interleaving of two requests, both writing the same audio
\* file name, the audio content of each response is the audio synthesized from
\* that request's own final script.
C34_OwnAudioReturned == OwnAudio(Locals) /\ OwnAudio(other)

\* C34 witness: both requests were answered 200 with different scripts, after
\* both wrote the same audio file
C34_Witness ==
    /\ response.status = 200
    /\ other.response.status = 200
    /\ audio_path = other.audio_path
    /\ final_summary # other.final_summary
    /\ response.audio_content # other.response.audio_content

-----------------------------------------------------------------------------
(* Narrator: the voice *)

LanguagePart(lang_code) == SubSeq(lang_code, 1, 2)

\* C35: for every locale code of the request flow get_voice_for_language
\* returns the default voice "en-US-natalie": the table is keyed by two-letter
\* codes, which no locale code equals, so the voice of the audio is the
\* default one also when the table has a voice for the code's language.
C35_AlwaysDefaultVoice ==
    /\ language \notin DOMAIN VOICE_BY_LANG
    /\ GetVoiceForLanguage(language) = << "en-US-natalie" >>
    /\ audio_path \in DOMAIN files => files[audio_path].voice_id = << "en-US-natalie" >>
    /\ response.status = 200 =>
          response.audio_content = B64(Synthesized(final_summary, << "en-US-natalie" >>))

\* C35 witness: a ja-JP request, whose language has the voice "kei" in the
\* table, was answered 200 with audio in the default voice
C35_Witness ==
    /\ language = Locale("j", "a", "J", "P")
    /\ VOICE_BY_LANG[LanguagePart(language)] = << "kei" >>
    /\ response.status = 200
    /\ files[audio_path].voice_id = DefaultVoice

====
